---- MODULE Spec2Model ----
(***************************************************************************)
(* Model of get_subnets.go: the three normalisation entry points           *)
(* (processSubnets, downloadReadySubnets, downloadReadySplitSubnets), the  *)
(* library calls they make (net/netip ParsePrefix and Prefix.String,       *)
(* netipx IPSetBuilder.AddPrefix / IPSet / Prefixes) and main's control    *)
(* flow.                                                                   *)
(*                                                                         *)
(* Text is a sequence of one-character strings.  An IPv4 address is a      *)
(* sequence of AddrBits bits, most significant first (netip.Addr keeps the *)
(* address as an integer; the bit sequence is that integer, written out so *)
(* that all 32 bits are kept).                                             *)
(***************************************************************************)
EXTENDS Integers, Sequences, FiniteSets, TLC

\* ------------------------------------------------------------------ bounds
\* Longest input list (BGP entries or feed lines) handed to one call.
MaxLines == 3

\* ------------------------------------------------------- program constants
\* Width of an IPv4 address (netip.Addr.Is4, Prefix.Bits() in 0..32).
AddrBits == 32
\* Width of an IPv6 address in bytes and the largest IPv6 prefix length.
V6Bytes == 16
V6MaxBits == 128

\* --------------------------------------------------------------- text
DigitChars == <<"0", "1", "2", "3", "4", "5", "6", "7", "8", "9">>
Digits == {DigitChars[d] : d \in 1..10}
DigitValues == [c \in Digits |-> (CHOOSE d \in 1..10 : DigitChars[d] = c) - 1]
IsDigit(c) == c \in Digits
DigitVal(c) == DigitValues[c]
IsHexDigit(c) == c \in Digits \/ c \in {"a", "b", "c", "d", "e", "f", "A", "B", "C", "D", "E", "F"}
WhiteSpace == {" ", "\t"}

\* strings.TrimSpace
RECURSIVE TrimLeft(_)
TrimLeft(s) == IF s # <<>> /\ Head(s) \in WhiteSpace THEN TrimLeft(Tail(s)) ELSE s
RECURSIVE TrimRight(_)
TrimRight(s) ==
    IF s # <<>> /\ s[Len(s)] \in WhiteSpace THEN TrimRight(SubSeq(s, 1, Len(s) - 1)) ELSE s
TrimSpace(s) == TrimRight(TrimLeft(s))

\* strconv.Itoa for a non-negative number
RECURSIVE Itoa(_)
Itoa(n) == IF n < 10 THEN <<DigitChars[n + 1]>> ELSE Itoa(n \div 10) \o <<DigitChars[(n % 10) + 1]>>

\* Index of the first / last occurrence of character c in s, 0 when absent.
IndexByte(s, c) ==
    IF \E i \in 1..Len(s) : s[i] = c
    THEN CHOOSE i \in 1..Len(s) : s[i] = c /\ \A j \in 1..(i - 1) : s[j] # c
    ELSE 0
LastIndexByte(s, c) ==
    IF \E i \in 1..Len(s) : s[i] = c
    THEN CHOOSE i \in 1..Len(s) : s[i] = c /\ \A j \in (i + 1)..Len(s) : s[j] # c
    ELSE 0

\* ------------------------------------------------------------ netip.Addr
\* The zero Addr (not valid): what Addr.Next returns past the last address.
NoAddr == <<>>
ByteBits(b) == [i \in 1..8 |-> (b \div (2 ^ (8 - i))) % 2]
\* netip.AddrFrom4
AddrFrom4(fields) == ByteBits(fields[1]) \o ByteBits(fields[2]) \o ByteBits(fields[3]) \o ByteBits(fields[4])
\* Addr.As4: the four octets
RECURSIVE BitsVal(_)
BitsVal(bs) == IF bs = <<>> THEN 0 ELSE 2 * BitsVal(SubSeq(bs, 1, Len(bs) - 1)) + bs[Len(bs)]
As4(a) == [k \in 1..4 |-> BitsVal(SubSeq(a, 8 * k - 7, 8 * k))]
\* Addr.String for an IPv4 address
Dotted(o) == Itoa(o[1]) \o <<".">> \o Itoa(o[2]) \o <<".">> \o Itoa(o[3]) \o <<".">> \o Itoa(o[4])
AddrString(a) == Dotted(As4(a))
\* Addr.Less / Addr.Compare on two IPv4 addresses
AddrLess(a, b) ==
    \E i \in 1..AddrBits : a[i] < b[i] /\ \A j \in 1..(i - 1) : a[j] = b[j]
AddrLessEq(a, b) == a = b \/ AddrLess(a, b)
\* Addr.Next: the following address, the zero Addr after 255.255.255.255
\* (k is the lowest bit that is 0: it becomes 1 and the bits below it 0)
AddrCarry(a, k) == [i \in 1..AddrBits |-> IF i < k THEN a[i] ELSE IF i = k THEN 1 ELSE 0]
AddrNext(a) ==
    IF \A i \in 1..AddrBits : a[i] = 1 THEN NoAddr
    ELSE AddrCarry(a, CHOOSE i \in 1..AddrBits : a[i] = 0 /\ \A j \in (i + 1)..AddrBits : a[j] = 1)

\* ------------------------------------------------------- netip.ParsePrefix
ParseFail == [ok |-> FALSE]

\* netip.parseIPv4: decimal octets 0..255 without leading zeros, exactly four
\* fields separated by single dots.
RECURSIVE parseIPv4Loop(_, _, _, _, _)
parseIPv4Loop(s, i, fields, val, digLen) ==
    IF i > Len(s)
    THEN IF Len(fields) < 3 THEN ParseFail
         ELSE [ok |-> TRUE, is4 |-> TRUE, zone |-> FALSE, addr |-> AddrFrom4(Append(fields, val))]
    ELSE IF IsDigit(s[i])
    THEN IF digLen = 1 /\ val = 0 THEN ParseFail
         ELSE IF val * 10 + DigitVal(s[i]) > 255 THEN ParseFail
         ELSE parseIPv4Loop(s, i + 1, fields, val * 10 + DigitVal(s[i]), digLen + 1)
    ELSE IF s[i] = "."
    THEN IF i = 1 \/ i = Len(s) \/ s[i - 1] = "." THEN ParseFail
         ELSE IF Len(fields) = 3 THEN ParseFail
         ELSE parseIPv4Loop(s, i + 1, Append(fields, val), 0, 0)
    ELSE ParseFail
parseIPv4(s) == parseIPv4Loop(s, 1, <<>>, 0, 0)

\* Number of leading hexadecimal digits of s.
RECURSIVE HexRun(_)
HexRun(s) == IF s # <<>> /\ IsHexDigit(Head(s)) THEN 1 + HexRun(Tail(s)) ELSE 0

\* netip.parseIPv6, as far as the callers use it: whether the text is an IPv6
\* address (the address value itself is never read, the callers keep only
\* Is4 addresses).  i counts the bytes filled, ellipsis is -1 or the byte
\* position of "::".
V6Addr(hasZone) == [ok |-> TRUE, is4 |-> FALSE, zone |-> hasZone]
V6End(s, i, ellipsis, hasZone) ==
    IF s # <<>> THEN ParseFail
    ELSE IF i < V6Bytes THEN (IF ellipsis < 0 THEN ParseFail ELSE V6Addr(hasZone))
    ELSE IF ellipsis >= 0 THEN ParseFail
    ELSE V6Addr(hasZone)
RECURSIVE parseIPv6Loop(_, _, _, _)
\* after the colon that follows a group: a second colon is the ellipsis
v6AfterColon(s, i, ellipsis, hasZone) ==
    IF s[1] = ":"
    THEN IF ellipsis >= 0 THEN ParseFail
         ELSE IF Tail(s) = <<>> THEN V6End(<<>>, i, i, hasZone)
         ELSE parseIPv6Loop(Tail(s), i, i, hasZone)
    ELSE parseIPv6Loop(s, i, ellipsis, hasZone)
\* after a group of hexadecimal digits: the end, or a colon and more
v6AfterGroup(s, i, ellipsis, hasZone) ==
    IF s = <<>> THEN V6End(s, i, ellipsis, hasZone)
    ELSE IF s[1] # ":" THEN ParseFail
    ELSE IF Len(s) = 1 THEN ParseFail
    ELSE v6AfterColon(Tail(s), i, ellipsis, hasZone)
\* a group of off hexadecimal digits, or a trailing dotted IPv4 address
v6Group(s, off, i, ellipsis, hasZone) ==
    IF off > 4 \/ off = 0 THEN ParseFail
    ELSE IF off < Len(s) /\ s[off + 1] = "."
    THEN IF ellipsis < 0 /\ i # 12 THEN ParseFail
         ELSE IF i + 4 > V6Bytes THEN ParseFail
         ELSE IF ~parseIPv4(s).ok THEN ParseFail
         ELSE V6End(<<>>, i + 4, ellipsis, hasZone)
    ELSE v6AfterGroup(SubSeq(s, off + 1, Len(s)), i + 2, ellipsis, hasZone)
parseIPv6Loop(s, i, ellipsis, hasZone) ==
    IF i >= V6Bytes THEN V6End(s, i, ellipsis, hasZone)
    ELSE v6Group(s, HexRun(s), i, ellipsis, hasZone)
\* the address text without its zone
parseIPv6NoZone(s, hasZone) ==
    IF Len(s) >= 2 /\ s[1] = ":" /\ s[2] = ":"
    THEN IF Len(s) = 2 THEN V6Addr(hasZone)
         ELSE parseIPv6Loop(SubSeq(s, 3, Len(s)), 0, 0, hasZone)
    ELSE parseIPv6Loop(s, 0, -1, hasZone)
\* pct is the position of '%' (0: no zone); an empty zone is an error
parseIPv6Zone(in, pct) ==
    IF pct # 0 /\ pct = Len(in) THEN ParseFail
    ELSE parseIPv6NoZone(IF pct # 0 THEN SubSeq(in, 1, pct - 1) ELSE in, pct # 0)
parseIPv6(in) == parseIPv6Zone(in, IndexByte(in, "%"))

\* netip.ParseAddr: the first of '.', ':' and '%' decides the family.
RECURSIVE ParseAddrFrom(_, _)
ParseAddrFrom(s, i) ==
    IF i > Len(s) THEN ParseFail
    ELSE IF s[i] = "." THEN parseIPv4(s)
    ELSE IF s[i] = ":" THEN parseIPv6(s)
    ELSE IF s[i] = "%" THEN ParseFail
    ELSE ParseAddrFrom(s, i + 1)
ParseAddr(s) == ParseAddrFrom(s, 1)

\* strconv.Atoi on the text after the slash, after ParsePrefix has refused a
\* sign or a leading zero: a run of digits, or an error.  The value is capped
\* one above the largest prefix length, every larger number is refused alike.
RECURSIVE AtoiFrom(_, _)
AtoiFrom(s, acc) ==
    IF s = <<>> THEN acc
    ELSE IF ~IsDigit(Head(s)) THEN -1
    ELSE IF acc * 10 + DigitVal(Head(s)) > V6MaxBits THEN AtoiFrom(Tail(s), V6MaxBits + 1)
    ELSE AtoiFrom(Tail(s), acc * 10 + DigitVal(Head(s)))
Atoi(s) == IF s = <<>> THEN -1 ELSE AtoiFrom(s, 0)

\* netip.ParsePrefix: [ok |-> FALSE] for an error, otherwise the prefix as
\* PrefixFrom(ip, bits) keeps it: the address as written (host bits are kept)
\* and the length.  The steps, last first: the range check of the length,
\* the checks of the two parts, the split at the last slash.
PrefixFromBits(ip, bits) ==
    IF bits < 0 \/ bits > (IF ip.is4 THEN AddrBits ELSE V6MaxBits) THEN ParseFail
    ELSE IF ip.is4 THEN [ok |-> TRUE, is4 |-> TRUE, addr |-> ip.addr, bits |-> bits]
    ELSE [ok |-> TRUE, is4 |-> FALSE, bits |-> bits]
ParsePrefixParts(ip, bitsStr) ==
    IF ~ip.ok THEN ParseFail
    ELSE IF ~ip.is4 /\ ip.zone THEN ParseFail
    ELSE IF Len(bitsStr) > 1 /\ (~IsDigit(bitsStr[1]) \/ bitsStr[1] = "0") THEN ParseFail
    ELSE PrefixFromBits(ip, Atoi(bitsStr))
ParsePrefixAt(s, i) ==
    IF i = 0 THEN ParseFail
    ELSE ParsePrefixParts(ParseAddr(SubSeq(s, 1, i - 1)), SubSeq(s, i + 1, Len(s)))
ParsePrefix(s) == ParsePrefixAt(s, LastIndexByte(s, "/"))

\* (variant: the length is not printed)
PrefixStringNoBits(p) == AddrString(p.addr)
\* netip.Prefix.String for an IPv4 prefix, as writeSubnetsToFile writes it
PrefixString(p) == AddrString(p.addr) \o <<"/">> \o Itoa(p.bits)

\* ---------------------------------------------------------------- netipx
\* netip.Prefix.Masked: the host bits cleared
Masked(p) == [addr |-> [i \in 1..AddrBits |-> IF i <= p.bits THEN p.addr[i] ELSE 0], bits |-> p.bits]
\* netipx.PrefixLastIP: the host bits set
PrefixLastIP(p) == [i \in 1..AddrBits |-> IF i <= p.bits THEN p.addr[i] ELSE 1]
\* netipx.RangeOfPrefix: the inclusive range of the masked prefix
RangeOfMasked(m) == [from |-> m.addr, to |-> PrefixLastIP(m)]
\* (variant: the host bits are kept)
RangeOfPrefixUnmasked(p) == RangeOfMasked(p)
RangeOfPrefix(p) == RangeOfMasked(Masked(p))
\* IPRange.IsValid
RangeIsValid(r) == r.from # NoAddr /\ r.to # NoAddr /\ AddrLessEq(r.from, r.to)
\* IPSetBuilder.AddRange: the range is appended to the builder's list `in`
\* (the builder has no removals here, so nothing is compacted first).
AddRange(in, r) == IF RangeIsValid(r) THEN Append(in, r) ELSE in
\* IPSetBuilder.AddPrefix
AddPrefix(in, p) == AddRange(in, RangeOfPrefix(p))

\* IPRange.less: by From, the larger range first among equal From
RangeLess(r, o) == IF r.from # o.from THEN AddrLess(r.from, o.from) ELSE AddrLess(o.to, r.to)
RECURSIVE InsertRange(_, _)
InsertRange(sorted, r) ==
    IF sorted = <<>> THEN <<r>>
    ELSE IF RangeLess(r, Head(sorted)) THEN <<r>> \o sorted
    ELSE <<Head(sorted)>> \o InsertRange(Tail(sorted), r)
\* sort.Sort(byIPRange(rr))
RECURSIVE SortRanges(_)
SortRanges(rr) == IF rr = <<>> THEN <<>> ELSE InsertRange(SortRanges(Tail(rr)), Head(rr))

\* One step of the loop of netipx.mergeIPRanges: r against prev = out[n], the
\* last range of out: touching, apart, overlapping, or contained.
\* (variant: a range that starts inside the last one always ends it, also
\* when it ends earlier)
MergeStepShrinks(out, n, r) ==
    IF AddrNext(out[n].to) = r.from THEN [out EXCEPT ![n].to = r.to]
    ELSE IF AddrLess(out[n].to, r.from) THEN Append(out, r)
    ELSE [out EXCEPT ![n].to = r.to]
\* (variant: touching ranges are not joined)
MergeStepApart(out, n, r) ==
    IF AddrLess(out[n].to, r.from) THEN Append(out, r)
    ELSE IF AddrLess(out[n].to, r.to) THEN [out EXCEPT ![n].to = r.to]
    ELSE out
MergeStep(out, n, r) ==
    IF AddrNext(out[n].to) = r.from THEN [out EXCEPT ![n].to = r.to]
    ELSE IF AddrLess(out[n].to, r.from) THEN Append(out, r)
    ELSE IF AddrLess(out[n].to, r.to) THEN [out EXCEPT ![n].to = r.to]
    ELSE out
RECURSIVE MergeLoop(_, _)
MergeLoop(out, rest) ==
    IF rest = <<>> THEN out ELSE MergeLoop(MergeStep(out, Len(out), Head(rest)), Tail(rest))
MergeSorted(sorted) == MergeLoop(<<Head(sorted)>>, Tail(sorted))
\* (variant: the ranges are merged in the order they were added)
mergeIPRangesUnsorted(rr) == IF Len(rr) <= 1 THEN rr ELSE MergeSorted(rr)
\* netipx.mergeIPRanges
mergeIPRanges(rr) == IF Len(rr) <= 1 THEN rr ELSE MergeSorted(SortRanges(rr))

\* IPSetBuilder.IPSet: normalize() with no removals leaves the merged ranges.
IPSet(in) == mergeIPRanges(in)

\* uint128.commonPrefixLen, on the 32 address bits
RECURSIVE CommonPrefixLen(_, _, _)
CommonPrefixLen(a, b, n) ==
    IF n < AddrBits /\ a[n + 1] = b[n + 1] THEN CommonPrefixLen(a, b, n + 1) ELSE n
\* netipx.comparePrefixes: the number of leading bits a and b share, and
\* whether after them a is all zeros and b all ones (a..b is one whole prefix)
WholePrefix(a, b, common) ==
    [common |-> common, ok |-> \A i \in (common + 1)..AddrBits : a[i] = 0 /\ b[i] = 1]
comparePrefixes(a, b) == WholePrefix(a, b, CommonPrefixLen(a, b, 0))
\* uint128.bitsSetFrom / bitsClearedFrom, bit numbers counted from 0
bitsSetFrom(a, bit) == [i \in 1..AddrBits |-> IF i > bit THEN 1 ELSE a[i]]
bitsClearedFrom(a, bit) == [i \in 1..AddrBits |-> IF i > bit THEN 0 ELSE a[i]]
\* netipx.appendRangePrefixes: a whole prefix, or the two halves recursively
RECURSIVE appendRangePrefixes(_, _, _)
\* (variant: the upper half is appended first)
appendHalvesSwapped(dst, a, b, c) ==
    IF c.ok THEN Append(dst, [addr |-> a, bits |-> c.common])
    ELSE appendRangePrefixes(appendRangePrefixes(dst, bitsClearedFrom(b, c.common + 1), b),
                             a, bitsSetFrom(a, c.common + 1))
appendHalves(dst, a, b, c) ==
    IF c.ok THEN Append(dst, [addr |-> a, bits |-> c.common])
    ELSE appendRangePrefixes(appendRangePrefixes(dst, a, bitsSetFrom(a, c.common + 1)),
                             bitsClearedFrom(b, c.common + 1), b)
appendRangePrefixes(dst, a, b) == appendHalves(dst, a, b, comparePrefixes(a, b))
\* IPSet.Prefixes: the prefixes of every range, in order
RECURSIVE Prefixes(_)
Prefixes(rr) ==
    IF rr = <<>> THEN <<>>
    ELSE appendRangePrefixes(<<>>, Head(rr).from, Head(rr).to) \o Prefixes(Tail(rr))

\* ------------------------------------------------------- get_subnets.go
\* log.Printf("Invalid subnet: %s", text)
InvalidSubnet(text) == [msg |-> "Invalid subnet", arg |-> text]

\* The set builder and the log of a call in progress.
NewSet == [v4Set |-> <<>>, logs |-> <<>>]

\* The body of the loop of processSubnets for an entry of the target AS: a
\* parse error is logged and the entry skipped, only an IPv4 prefix is added.
processPrefix(text, prefix, acc) ==
    IF ~prefix.ok THEN [acc EXCEPT !.logs = Append(@, InvalidSubnet(text))]
    ELSE IF prefix.is4 THEN [acc EXCEPT !.v4Set = AddPrefix(@, prefix)]
    ELSE acc
\* Only the entries of the target AS are parsed.
\* (variant: the AS number is not looked at)
processItemAnyAS(item, targetAS, acc) == processPrefix(item.subnet, ParsePrefix(item.subnet), acc)
processItem(item, targetAS, acc) ==
    IF item.as = targetAS THEN processPrefix(item.subnet, ParsePrefix(item.subnet), acc) ELSE acc
RECURSIVE processLoop(_, _, _)
processLoop(items, targetAS, acc) ==
    IF items = <<>> THEN acc
    ELSE processLoop(Tail(items), targetAS, processItem(Head(items), targetAS, acc))
\* v4IPSet, _ := v4Set.IPSet(); return v4IPSet.Prefixes(), nil
processReturn(acc) == [prefixes |-> Prefixes(IPSet(acc.v4Set)), err |-> FALSE, logs |-> acc.logs]
processSubnets(subnets, targetAS) == processReturn(processLoop(subnets, targetAS, NewSet))

\* What downloadURL hands back: an error, or the body.  The body is given as
\* the lines bufio.Scanner yields from it, and whether the scanner then stopped
\* on an error (a token too long) instead of the end of the body.
DownloadFailed == [ok |-> FALSE, lines |-> <<>>, scanErr |-> FALSE]
ErrorReturn(logs) == [prefixes |-> <<>>, err |-> TRUE, logs |-> logs]

\* The scan loop of downloadReadySubnets: trim, skip blank lines, parse, log and
\* skip what does not parse, add IPv4 prefixes.
\* (variant: an invalid line throws away what was collected)
readyPrefixReset(line, prefix, acc) ==
    IF ~prefix.ok THEN [acc EXCEPT !.logs = Append(@, InvalidSubnet(line)), !.v4Set = <<>>]
    ELSE IF prefix.is4 THEN [acc EXCEPT !.v4Set = AddPrefix(@, prefix)]
    ELSE acc
readyPrefix(line, prefix, acc) ==
    IF ~prefix.ok THEN [acc EXCEPT !.logs = Append(@, InvalidSubnet(line))]
    ELSE IF prefix.is4 THEN [acc EXCEPT !.v4Set = AddPrefix(@, prefix)]
    ELSE acc
readyLine(line, acc) == IF line = <<>> THEN acc ELSE readyPrefix(line, ParsePrefix(line), acc)
RECURSIVE readyLoop(_, _)
readyLoop(lines, acc) ==
    IF lines = <<>> THEN acc ELSE readyLoop(Tail(lines), readyLine(TrimSpace(Head(lines)), acc))
\* v4IPSet, _ := v4Set.IPSet(); return v4IPSet.Prefixes(), nil
\* (scanner.Err() is not consulted)
readyReturn(acc) == [prefixes |-> Prefixes(IPSet(acc.v4Set)), err |-> FALSE, logs |-> acc.logs]
downloadReadySubnets(resp) ==
    IF ~resp.ok THEN ErrorReturn(<<>>) ELSE readyReturn(readyLoop(resp.lines, NewSet))

\* The scan loop of downloadReadySplitSubnets.
splitPrefix(line, prefix, acc) ==
    IF ~prefix.ok THEN [acc EXCEPT !.logs = Append(@, InvalidSubnet(line))]
    ELSE IF prefix.is4 THEN [acc EXCEPT !.v4Set = AddPrefix(@, prefix)]
    ELSE acc
splitLine(line, acc) == IF line = <<>> THEN acc ELSE splitPrefix(line, ParsePrefix(line), acc)
RECURSIVE splitLoop(_, _)
splitLoop(lines, acc) ==
    IF lines = <<>> THEN acc ELSE splitLoop(Tail(lines), splitLine(TrimSpace(Head(lines)), acc))
\* A scanner error is returned, without prefixes; otherwise as above.
splitReturn(scanErr, acc) ==
    IF scanErr THEN ErrorReturn(acc.logs)
    ELSE [prefixes |-> Prefixes(IPSet(acc.v4Set)), err |-> FALSE, logs |-> acc.logs]
downloadReadySplitSubnets(resp) ==
    IF ~resp.ok THEN ErrorReturn(<<>>) ELSE splitReturn(resp.scanErr, splitLoop(resp.lines, NewSet))

\* The lines writeSubnetsToFile writes for a prefix list: prefix.String() each.
FileLines(prefixes) == [i \in 1..Len(prefixes) |-> PrefixString(prefixes[i])]

\* ------------------------------------------------------------ the inputs
\* AS numbers of the BGP table and of the configuration (as_numbers keys).
ASNumbers == {"13335", "32934"}
\* Entries of the BGP table (downloadBGPTable: the first two fields of a line).
BGPPool ==
    {
      [subnet |-> <<"1", "0", ".", "0", ".", "0", ".", "0", "/", "2", "4">>, as |-> "13335"],
      [subnet |-> <<"1", "0", ".", "0", ".", "1", ".", "0", "/", "2", "4">>, as |-> "13335"],
      [subnet |-> <<"1", "9", "2", ".", "1", "6", "8", ".", "1", ".", "0", "/", "2", "4">>, as |-> "13335"],
      [subnet |-> <<"1", "9", "2", ".", "1", "6", "8", ".", "1", ".", "1", "2", "8", "/", "2", "5">>, as |-> "13335"],
      [subnet |-> <<"1", ".", "1", ".", "1", ".", "1", "/", "3", "2">>, as |-> "13335"],
      [subnet |-> <<"1", ".", "1", ".", "1", ".", "2", "/", "3", "2">>, as |-> "13335"],
      [subnet |-> <<"n", "o", "t", "-", "a", "n", "-", "i", "p">>, as |-> "13335"],
      [subnet |-> <<"2", "0", "0", "1", ":", "d", "b", "8", ":", ":", "/", "3", "2">>, as |-> "13335"],
      [subnet |-> <<"1", "0", ".", "0", ".", "2", ".", "0", "/", "2", "4">>, as |-> "32934"]
    }
\* Lines of a ready-made CIDR feed as the scanner yields them.
LinePool ==
    {
      <<"1", "0", ".", "0", ".", "0", ".", "5", "/", "2", "4">>,
      <<" ", "1", "0", ".", "0", ".", "1", ".", "0", "/", "2", "4", " ">>,
      <<"0", ".", "0", ".", "0", ".", "0", "/", "0">>,
      <<"2", "5", "5", ".", "2", "5", "5", ".", "2", "5", "5", ".", "2", "5", "4", "/", "3", "1">>,
      <<"2", "5", "5", ".", "2", "5", "5", ".", "2", "5", "5", ".", "2", "5", "3", "/", "3", "2">>,
      <<"1", ".", "1", ".", "1", ".", "1">>,
      <<" ">>,
      <<"2", "0", "0", "1", ":", "d", "b", "8", ":", ":", "/", "3", "2">>,
      <<"n", "o", "t", "-", "a", "n", "-", "i", "p">>
    }
SeqsUpTo(S, n) == UNION {[1..k -> S] : k \in 0..n}
\* The answers of downloadURL for a feed.
Responses ==
    {DownloadFailed} \cup
    {[ok |-> TRUE, lines |-> ls, scanErr |-> e] : ls \in SeqsUpTo(LinePool, MaxLines), e \in BOOLEAN}

\* ----------------------------------------------------- the state machine
VARIABLES
    fn,        \* the function that ran last ("none" before the first call)
    args,      \* its arguments (for a download: the URL and what the URL answered)
    ret,       \* what it returned: the prefix list and whether an error
    logOut,    \* the log lines it printed
    file,      \* the content of the list file, NoFile until one is written
    pc,        \* main: where the run is ("idle": main is not running)
    config,    \* main: the configuration loaded (config.ASNumbers, GenerateV6/V7)
    asTodo,    \* main: the keys of config.ASNumbers the loop has yet to visit
    table,     \* main: subnets, the BGP table downloaded
    group,     \* main: the group in hand (an AS number, "discord", ...)
    v4Merged,  \* main: the prefix list of the group in hand
    outFiles,  \* main: the output files written so far
    mainLog    \* main: the log lines printed so far

callVars == <<fn, args, ret, logOut, file>>
mainVars == <<pc, config, asTodo, table, group, v4Merged, outFiles, mainLog>>
vars == <<fn, args, ret, logOut, file, pc, config, asTodo, table, group, v4Merged, outFiles, mainLog>>

NoFile == <<"no file">>
NoArgs == [none |-> TRUE]
NoConfig == [ASNumbers |-> {}, GenerateV6 |-> FALSE, GenerateV7 |-> FALSE]

CallInit ==
    /\ fn = "none"
    /\ args = NoArgs
    /\ ret = [prefixes |-> <<>>, err |-> FALSE]
    /\ logOut = <<>>
    /\ file = NoFile
MainIdle ==
    /\ config = NoConfig
    /\ asTodo = {}
    /\ table = <<>>
    /\ group = "none"
    /\ v4Merged = <<>>
    /\ outFiles = {}
    /\ mainLog = <<>>

\* The functions called one at a time, main not running.
Init == CallInit /\ pc = "idle" /\ MainIdle

\* A call of function f with arguments a has returned r.
Returned(f, a, r) ==
    /\ fn' = f
    /\ args' = a
    /\ ret' = [prefixes |-> r.prefixes, err |-> r.err]
    /\ logOut' = r.logs

\* processSubnets(subnets, targetAS)
CallProcessSubnets ==
    /\ fn = "none"
    /\ \E subnets \in SeqsUpTo(BGPPool, MaxLines), targetAS \in ASNumbers :
          Returned("processSubnets", [subnets |-> subnets, targetAS |-> targetAS],
                   processSubnets(subnets, targetAS))
    /\ UNCHANGED <<file, mainVars>>

\* downloadReadySubnets(urlV4) on a feed
CallDownloadReadySubnets ==
    /\ fn = "none"
    /\ \E resp \in Responses :
          Returned("downloadReadySubnets", [url |-> "feed", resp |-> resp], downloadReadySubnets(resp))
    /\ UNCHANGED <<file, mainVars>>

\* downloadReadySplitSubnets(url) on a feed
CallDownloadReadySplitSubnets ==
    /\ fn = "none"
    /\ \E resp \in Responses :
          Returned("downloadReadySplitSubnets", [url |-> "feed", resp |-> resp],
                   downloadReadySplitSubnets(resp))
    /\ UNCHANGED <<file, mainVars>>

\* writeSubnetsToFile(prefixes, filename) with the list a call returned: the
\* file is not created (error), or the first n lines reach it (an error unless
\* all did).
WriteSubnetsToFile ==
    /\ fn \in {"processSubnets", "downloadReadySubnets", "downloadReadySplitSubnets"}
    /\ ~ret.err
    /\ file = NoFile
    /\ \E created \in BOOLEAN, n \in 0..Len(ret.prefixes) :
          /\ fn' = "writeSubnetsToFile"
          /\ args' = [prefixes |-> ret.prefixes]
          /\ file' = IF created THEN SubSeq(FileLines(ret.prefixes), 1, n) ELSE NoFile
          /\ ret' = [prefixes |-> <<>>, err |-> ~created \/ n < Len(ret.prefixes)]
          /\ logOut' = <<>>
    /\ UNCHANGED mainVars

\* downloadReadySubnets(urlV4) on the list file served back as a feed
FileResponse == [ok |-> TRUE, lines |-> file, scanErr |-> FALSE]
RefeedFile ==
    /\ fn = "writeSubnetsToFile"
    /\ file # NoFile
    /\ Returned("downloadReadySubnets",
                [url |-> "file", resp |-> FileResponse, written |-> args.prefixes, complete |-> ~ret.err],
                downloadReadySubnets(FileResponse))
    /\ UNCHANGED <<file, mainVars>>

Next ==
    \/ CallProcessSubnets
    \/ CallDownloadReadySubnets
    \/ CallDownloadReadySplitSubnets
    \/ WriteSubnetsToFile
    \/ RefeedFile

Spec == Init /\ [][Next]_vars

\* ------------------------------------------------------------------ main
\* Failures injected into one run of main (downloads, file operations).
MaxFailures == 2

Feeds == {"discord", "telegram", "cloudflare"}
\* What the downloads of a run of main may answer.
MainTables ==
    {<<>>,
     <<[subnet |-> <<"1", "0", ".", "0", ".", "0", ".", "0", "/", "2", "4">>, as |-> "13335"],
       [subnet |-> <<"n", "o", "t", "-", "a", "n", "-", "i", "p">>, as |-> "32934"]>>}
MainResponses ==
    {DownloadFailed,
     [ok |-> TRUE, lines |-> <<>>, scanErr |-> FALSE],
     [ok |-> TRUE, lines |-> <<<<"1", "0", ".", "0", ".", "0", ".", "5", "/", "2", "4">>>>, scanErr |-> FALSE],
     [ok |-> TRUE, lines |-> <<<<"1", "0", ".", "0", ".", "0", ".", "5", "/", "2", "4">>>>, scanErr |-> TRUE]}

\* What the functions main calls return on these, computed once:
\* processSubnets(subnets, as), downloadReadySubnets(url) and
\* downloadReadySplitSubnets(url).
ProcessedTables == [subnets \in MainTables, as \in ASNumbers |-> processSubnets(subnets, as)]
ReadySubnets == [resp \in MainResponses |-> downloadReadySubnets(resp)]
ReadySplitSubnets == [resp \in MainResponses |-> downloadReadySplitSubnets(resp)]

\* log.Printf / log.Fatal lines of main; an error line counts as a failure.
LogLine(msg, g) == [msg |-> msg, arg |-> g]
IsFailure(line) == line.msg \notin {"Invalid subnet", "Done!"}
Failures == Cardinality({k \in 1..Len(mainLog) : IsFailure(mainLog[k])})
MayFail == Failures < MaxFailures
\* The output files of a group.
ListFile(g) == <<"ipv4", g>>
LegacyFile(g) == <<"ipv4 legacy", g>>
RouterOSFile(g, version) == <<version, g>>

MainInit == CallInit /\ pc = "start" /\ MainIdle

\* log.Fatal: the line is printed and the process exits.
Fatal(msg) ==
    /\ pc' = "fatal"
    /\ mainLog' = Append(mainLog, LogLine(msg, "main"))
    /\ UNCHANGED <<config, asTodo, table, group, v4Merged, outFiles>>

\* if len(os.Args) < 2 { log.Fatal("Usage: ...") }
CheckArgs ==
    /\ pc = "start"
    /\ \/ /\ pc' = "loadConfig"
          /\ UNCHANGED <<config, asTodo, table, group, v4Merged, outFiles, mainLog>>
       \/ MayFail /\ Fatal("Usage")
    /\ UNCHANGED callVars

\* loadConfig: the file is read and parsed; with neither generate_v6 nor
\* generate_v7 set, both are.
LoadConfig ==
    /\ pc = "loadConfig"
    /\ \/ \E asn \in SUBSET ASNumbers, v6 \in BOOLEAN, v7 \in BOOLEAN :
             /\ config' = [ASNumbers |-> asn,
                           GenerateV6 |-> v6 \/ (~v6 /\ ~v7),
                           GenerateV7 |-> v7 \/ (~v6 /\ ~v7)]
             /\ pc' = "createDirs"
             /\ UNCHANGED <<asTodo, table, group, v4Merged, outFiles, mainLog>>
       \/ MayFail /\ Fatal("Error loading config")
    /\ UNCHANGED callVars

\* createDirs: only directories are made.
CreateDirs ==
    /\ pc = "createDirs"
    /\ \/ /\ pc' = "downloadBGPTable"
          /\ UNCHANGED <<config, asTodo, table, group, v4Merged, outFiles, mainLog>>
       \/ MayFail /\ Fatal("createDirs")
    /\ UNCHANGED callVars

\* subnets, err := downloadBGPTable()
DownloadBGPTable ==
    /\ pc = "downloadBGPTable"
    /\ \/ \E subnets \in MainTables :
             /\ table' = subnets
             /\ asTodo' = config.ASNumbers
             /\ pc' = "asLoop"
             /\ UNCHANGED <<config, group, v4Merged, outFiles, mainLog>>
       \/ MayFail /\ Fatal("Error downloading BGP table")
    /\ UNCHANGED callVars

\* for as, asConfig := range config.ASNumbers (a map: any order):
\* v4Merged, err := processSubnets(subnets, as); err is always nil.
Processed(as, r) ==
    /\ group' = as
    /\ v4Merged' = r.prefixes
    /\ mainLog' = mainLog \o r.logs
    /\ asTodo' = asTodo \ {as}
    /\ pc' = "write"
NextAS ==
    /\ pc = "asLoop"
    /\ \E as \in asTodo : Processed(as, ProcessedTables[table, as])
    /\ UNCHANGED <<config, table, outFiles>>
    /\ UNCHANGED callVars
\* the loop is over
EndASLoop ==
    /\ pc = "asLoop"
    /\ asTodo = {}
    /\ pc' = "discord"
    /\ UNCHANGED <<config, asTodo, table, group, v4Merged, outFiles, mainLog>>
    /\ UNCHANGED callVars

\* A feed was downloaded: on an error a line is logged and the group is left
\* out (next is where main goes on then), otherwise the group is in hand.
Downloaded(g, r, next) ==
    /\ IF r.err
       THEN /\ mainLog' = Append(mainLog \o r.logs, LogLine("Error downloading", g))
            /\ pc' = next
            /\ UNCHANGED <<group, v4Merged>>
       ELSE /\ mainLog' = mainLog \o r.logs
            /\ pc' = "write"
            /\ group' = g
            /\ v4Merged' = r.prefixes
    /\ UNCHANGED <<config, asTodo, table, outFiles>>
FeedResponses == IF MayFail THEN MainResponses ELSE {resp \in MainResponses : resp.ok /\ ~resp.scanErr}
\* v4Discord, err := downloadReadySubnets(config.Discord.VoiceV4)
DownloadDiscord ==
    /\ pc = "discord"
    /\ \E resp \in FeedResponses : Downloaded("discord", ReadySubnets[resp], "telegram")
    /\ UNCHANGED callVars
\* v4Telegram, err := downloadReadySplitSubnets(config.Telegram.CIDRURL)
DownloadTelegram ==
    /\ pc = "telegram"
    /\ \E resp \in FeedResponses : Downloaded("telegram", ReadySplitSubnets[resp], "cloudflare")
    /\ UNCHANGED callVars
\* v4Cloudflare, err := downloadReadySubnets(config.Cloudflare.V4)
DownloadCloudflare ==
    /\ pc = "cloudflare"
    /\ \E resp \in FeedResponses : Downloaded("cloudflare", ReadySubnets[resp], "finish")
    /\ UNCHANGED callVars

\* What a file operation may do: the files it leaves and whether an error.
\* os.Create fails (no file), or a write fails (the file is there).
FileOutcomes(name) ==
    {[files |-> {name}, err |-> FALSE]}
        \cup (IF MayFail THEN {[files |-> {}, err |-> TRUE], [files |-> {name}, err |-> TRUE]} ELSE {})
\* An error of a step of the group in hand is logged, nothing more.
\* (variant: log.Fatal in place of log.Printf)
StepAborts(o, msg, next) ==
    /\ outFiles' = outFiles \cup o.files
    /\ mainLog' = IF o.err THEN Append(mainLog, LogLine(msg, group)) ELSE mainLog
    /\ pc' = IF o.err THEN "fatal" ELSE next
    /\ UNCHANGED <<config, asTodo, table, group, v4Merged>>
StepDone(o, msg, next) ==
    /\ outFiles' = outFiles \cup o.files
    /\ mainLog' = IF o.err THEN Append(mainLog, LogLine(msg, group)) ELSE mainLog
    /\ pc' = next
    /\ UNCHANGED <<config, asTodo, table, group, v4Merged>>

\* if err := writeSubnetsToFile(...); err != nil { log.Printf("Error writing ...") }
WriteList ==
    /\ pc = "write"
    /\ \E o \in FileOutcomes(ListFile(group)) : StepDone(o, "Error writing", "routeros")
    /\ UNCHANGED callVars

\* generateRouterOSConfig: the v6 script, then the v7 script, each only when
\* configured and the list is not empty; the first error is returned.
Nothing == {[files |-> {}, err |-> FALSE]}
VersionOutcomes(generate, version) ==
    IF generate /\ Len(v4Merged) > 0 THEN FileOutcomes(RouterOSFile(group, version)) ELSE Nothing
Then(o6, O7) == IF o6.err THEN {o6} ELSE {[files |-> o6.files \cup o7.files, err |-> o7.err] : o7 \in O7}
generateRouterOSConfig ==
    UNION {Then(o6, VersionOutcomes(config.GenerateV7, "v7")) : o6 \in VersionOutcomes(config.GenerateV6, "v6")}
\* where main goes on after the scripts of a group: the legacy copy for an AS
\* and for Discord, the next group for Telegram, the end for Cloudflare
AfterRouterOS == IF group = "telegram" THEN "cloudflare" ELSE IF group = "cloudflare" THEN "finish" ELSE "copy"
GenerateRouterOS ==
    /\ pc = "routeros"
    /\ \E o \in generateRouterOSConfig : StepDone(o, "Error generating RouterOS config", AfterRouterOS)
    /\ UNCHANGED callVars

\* if err := copyFileLegacy(...); err != nil { log.Printf("Error creating legacy copy ...") }
AfterCopy == IF group = "discord" THEN "telegram" ELSE "asLoop"
CopyLegacy ==
    /\ pc = "copy"
    /\ \E o \in FileOutcomes(LegacyFile(group)) : StepDone(o, "Error creating legacy copy", AfterCopy)
    /\ UNCHANGED callVars

\* log.Println("Done!")
Finish ==
    /\ pc = "finish"
    /\ pc' = "done"
    /\ mainLog' = Append(mainLog, LogLine("Done!", "main"))
    /\ UNCHANGED <<config, asTodo, table, group, v4Merged, outFiles>>
    /\ UNCHANGED callVars

MainNext ==
    \/ CheckArgs
    \/ LoadConfig
    \/ CreateDirs
    \/ DownloadBGPTable
    \/ NextAS
    \/ EndASLoop
    \/ DownloadDiscord
    \/ DownloadTelegram
    \/ DownloadCloudflare
    \/ WriteList
    \/ GenerateRouterOS
    \/ CopyLegacy
    \/ Finish

\* One run of main.  main is sequential and every statement of it returns, so
\* a step that can be taken is taken.
MainSpec == MainInit /\ [][MainNext]_vars /\ WF_vars(MainNext)

\* ================================================================ claims
\* ------------------------------------------------- what the claims speak of
\* One of the three normalisation functions has run.
IsCall == fn \in {"processSubnets", "downloadReadySubnets", "downloadReadySplitSubnets"}
\* ... on a list of lines: the download (if any) succeeded and, for
\* downloadReadySplitSubnets, the scanner reached the end of the body.
Fed ==
    /\ IsCall
    /\ fn # "processSubnets" => args.resp.ok
    /\ fn = "downloadReadySplitSubnets" => ~args.resp.scanErr

\* The texts of a list that are meant for the parser: of the BGP table the
\* subnets of the target AS, of a feed the non-blank lines without the
\* surrounding white space.
NonBlank(line) == \E i \in 1..Len(line) : line[i] \notin WhiteSpace
RECURSIVE TextsOfTable(_, _)
TextsOfTable(items, as) ==
    IF items = <<>> THEN <<>>
    ELSE IF Head(items).as = as THEN <<Head(items).subnet>> \o TextsOfTable(Tail(items), as)
    ELSE TextsOfTable(Tail(items), as)
RECURSIVE Strip(_)
Strip(line) ==
    IF Head(line) \in WhiteSpace THEN Strip(Tail(line))
    ELSE IF line[Len(line)] \in WhiteSpace THEN Strip(SubSeq(line, 1, Len(line) - 1))
    ELSE line
RECURSIVE TextsOfFeed(_)
TextsOfFeed(lines) ==
    IF lines = <<>> THEN <<>>
    ELSE IF NonBlank(Head(lines)) THEN <<Strip(Head(lines))>> \o TextsOfFeed(Tail(lines))
    ELSE TextsOfFeed(Tail(lines))
Texts == IF fn = "processSubnets" THEN TextsOfTable(args.subnets, args.targetAS) ELSE TextsOfFeed(args.resp.lines)

\* A text that is an IPv4 prefix a.b.c.d/n, a text that is no prefix at all.
IsV4Prefix(text) == ParsePrefix(text).ok /\ ParsePrefix(text).is4
Malformed(text) == ~ParsePrefix(text).ok
\* The IPv4 prefixes of the input and the prefixes returned, as sets.
V4Among(parsed) == {parsed[i] : i \in {j \in 1..Len(parsed) : parsed[j].ok /\ parsed[j].is4}}
ParseAll(texts) == [i \in 1..Len(texts) |-> ParsePrefix(texts[i])]
InPrefixes == V4Among(ParseAll(Texts))
OutPrefixes == {ret.prefixes[i] : i \in 1..Len(ret.prefixes)}

\* Address a lies in prefix p: it has the first p.bits bits of p's address.
Covers(p, a) == \A i \in 1..p.bits : a[i] = p.addr[i]
CoveredBy(P, a) == \E p \in P : Covers(p, a)
\* The first and the last address of prefix p (start and end of its range).
First(p) == [i \in 1..AddrBits |-> IF i <= p.bits THEN p.addr[i] ELSE 0]
Last(p) == [i \in 1..AddrBits |-> IF i <= p.bits THEN p.addr[i] ELSE 1]
AllZero == [i \in 1..AddrBits |-> 0]
AllOnes == [i \in 1..AddrBits |-> 1]
\* a + 1 and a - 1, NoAddr outside the address space
Succ(a) ==
    IF a = AllOnes THEN NoAddr
    ELSE [i \in 1..AddrBits |-> IF \E j \in (i + 1)..AddrBits : a[j] = 0 THEN a[i]
                                 ELSE 1 - a[i]]
Pred(a) ==
    IF a = AllZero THEN NoAddr
    ELSE [i \in 1..AddrBits |-> IF \E j \in (i + 1)..AddrBits : a[j] = 1 THEN a[i]
                                 ELSE 1 - a[i]]
\* a < b as numbers
Below(a, b) == \E i \in 1..AddrBits : a[i] = 0 /\ b[i] = 1 /\ \A j \in 1..(i - 1) : a[j] = b[j]

\* The addresses at which membership in a union of the prefixes P can change
\* (each start and each end + 1), together with the addresses next to them and
\* the two ends of the address space.  Two unions of prefixes of P cover the
\* same addresses if and only if they agree on these: between two consecutive
\* starts or ends + 1, membership in either union is constant.
Probes(P) ==
    ({AllZero, AllOnes}
        \cup {First(p) : p \in P} \cup {Last(p) : p \in P}
        \cup {Pred(First(p)) : p \in P} \cup {Succ(Last(p)) : p \in P}) \ {NoAddr}

\* C1 -- Coverage preservation: the addresses covered by the returned prefixes
\* are exactly those covered by the input lines that are IPv4 prefixes (for
\* processSubnets: of the target AS); none is added, none is lost.
SameCoverage(P, Q) == \A a \in Probes(P \cup Q) : CoveredBy(P, a) <=> CoveredBy(Q, a)
CoveragePreserved == (Fed /\ ~ret.err) => SameCoverage(InPrefixes, OutPrefixes)
\* A call whose input held two IPv4 prefixes that merged into one range and a
\* line that is no IPv4 prefix.
CoverageWitness ==
    /\ Fed /\ ~ret.err
    /\ Cardinality(InPrefixes) >= 2
    /\ Len(ret.prefixes) = 1
    /\ Len(Texts) > Cardinality(InPrefixes)

\* C2 (as claimed) -- Disjointness: for consecutive returned prefixes
\* end(p_i) + 1 < start(p_i+1): they neither overlap nor are adjacent.
Apart(p, q) == Succ(Last(p)) # NoAddr /\ Below(Succ(Last(p)), First(q))
ConsecutiveApart ==
    (Fed /\ ~ret.err) => \A i \in 1..(Len(ret.prefixes) - 1) : Apart(ret.prefixes[i], ret.prefixes[i + 1])
\* C2 (amended) -- consecutive returned prefixes are ascending and do not
\* overlap, end(p_i) < start(p_i+1); they may be adjacent, but then they are
\* not the two halves of one larger prefix (they could not be merged).
Halves(p, q) ==
    /\ p.bits = q.bits /\ p.bits > 0
    /\ \A i \in 1..(p.bits - 1) : p.addr[i] = q.addr[i]
    /\ p.addr[p.bits] = 0 /\ q.addr[p.bits] = 1
ConsecutiveDisjointUnmergeable ==
    (Fed /\ ~ret.err) =>
        \A i \in 1..(Len(ret.prefixes) - 1) :
            /\ Below(Last(ret.prefixes[i]), First(ret.prefixes[i + 1]))
            /\ ~Halves(ret.prefixes[i], ret.prefixes[i + 1])
\* A list with two adjacent prefixes and, after a gap, a third.
DisjointWitness ==
    /\ Fed /\ ~ret.err /\ Len(ret.prefixes) >= 3
    /\ \E i \in 1..(Len(ret.prefixes) - 1) : Succ(Last(ret.prefixes[i])) = First(ret.prefixes[i + 1])
    /\ \E i \in 1..(Len(ret.prefixes) - 1) : Apart(ret.prefixes[i], ret.prefixes[i + 1])

\* The list the call was given, and the same function on another list.
InputList == IF fn = "processSubnets" THEN args.subnets ELSE args.resp.lines
Rerun(list) ==
    IF fn = "processSubnets" THEN processSubnets(list, args.targetAS)
    ELSE IF fn = "downloadReadySubnets" THEN downloadReadySubnets([args.resp EXCEPT !.lines = list])
    ELSE downloadReadySplitSubnets([args.resp EXCEPT !.lines = list])
\* list with the entries at i and j exchanged; list with entry i once more, at
\* the front or at the end
Swapped(list, i, j) == [list EXCEPT ![i] = list[j], ![j] = list[i]]
RepeatedFront(list, i) == <<list[i]>> \o list
RepeatedEnd(list, i) == Append(list, list[i])

\* C3 -- Order invariance: the same entries in another order, or with an entry
\* repeated, give the identical prefix list.  Every permutation is a product of
\* exchanges of two entries and every list of the input space is checked, so
\* agreement under every exchange is agreement under every permutation.
SameResult(list, prefixes) ==
    /\ \A i, j \in 1..Len(list) : i < j => Rerun(Swapped(list, i, j)).prefixes = prefixes
    /\ \A i \in 1..Len(list) :
          /\ Rerun(RepeatedFront(list, i)).prefixes = prefixes
          /\ Rerun(RepeatedEnd(list, i)).prefixes = prefixes
OrderInvariant == (Fed /\ ~ret.err) => SameResult(InputList, ret.prefixes)
\* A call on three IPv4 prefixes given in descending order of which two merge.
OrderWitness ==
    /\ Fed /\ ~ret.err
    /\ Len(Texts) = 3 /\ Cardinality(InPrefixes) = 3 /\ Len(ret.prefixes) = 2
    /\ \A i \in 1..2 : Below(First(ParsePrefix(Texts[i + 1])), First(ParsePrefix(Texts[i])))

\* C4 -- Idempotence: the list written to the file in full (one
\* prefix.String() per line) and read back by downloadReadySubnets is the list
\* that was written, without error or diagnostic.
RefedFile == fn = "downloadReadySubnets" /\ args.url = "file" /\ args.complete
RefeedIdentical == RefedFile => (~ret.err /\ ret.prefixes = args.written /\ logOut = <<>>)
\* A written list of three prefixes, one of them not a /32, was read back.
RefeedWitness ==
    /\ RefedFile
    /\ Len(args.written) = 3
    /\ \E i \in 1..3 : args.written[i].bits < AddrBits

\* The diagnostics for the texts that are no prefix, in order, one each.
RECURSIVE Diagnostics(_)
Diagnostics(texts) ==
    IF texts = <<>> THEN <<>>
    ELSE IF Malformed(Head(texts)) THEN <<InvalidSubnet(Head(texts))>> \o Diagnostics(Tail(texts))
    ELSE Diagnostics(Tail(texts))
\* The text of an entry of the list (a table entry's subnet, a feed line).
TextOf(entry) == IF fn = "processSubnets" THEN entry.subnet ELSE entry
Blank(entry) == fn # "processSubnets" /\ ~NonBlank(entry)
WellFormed(entry) == Blank(entry) \/ ~Malformed(Strip(TextOf(entry)))

\* C5 -- A malformed line never aborts the run: each malformed line gives
\* exactly one "Invalid subnet" diagnostic, the function returns no error, and
\* the result is the one built from the well-formed lines alone.
MalformedSkipped ==
    Fed => /\ ~ret.err
           /\ logOut = Diagnostics(Texts)
           /\ ret.prefixes = Rerun(SelectSeq(InputList, WellFormed)).prefixes
           /\ Rerun(SelectSeq(InputList, WellFormed)).logs = <<>>
\* A malformed line came first, IPv4 prefixes after it.
MalformedWitness ==
    /\ Fed /\ Len(Texts) = 3
    /\ Malformed(Texts[1]) /\ IsV4Prefix(Texts[2]) /\ IsV4Prefix(Texts[3])
    /\ Len(logOut) = 1 /\ Len(ret.prefixes) >= 1

\* C6 -- Canonical output: every returned prefix has its host bits zero; an
\* input prefix with host bits set is neither rejected (no diagnostic) nor
\* emitted as written: its whole network, from the masked address on, is in
\* the output.
HasHostBits(p) == p.addr # First(p)
NoDiagnosticFor(text) == \A k \in 1..Len(logOut) : logOut[k].arg # text
NetworksCovered(parsed, texts, out) ==
    \A i \in 1..Len(parsed) :
        (parsed[i].ok /\ parsed[i].is4) =>
            /\ NoDiagnosticFor(texts[i])
            /\ CoveredBy(out, First(parsed[i]))
            /\ CoveredBy(out, Last(parsed[i]))
CanonicalOutput ==
    (Fed /\ ~ret.err) =>
        /\ \A p \in OutPrefixes : ~HasHostBits(p)
        /\ NetworksCovered(ParseAll(Texts), Texts, OutPrefixes)
\* The only IPv4 prefix of the input had host bits set, and a prefix came out.
CanonicalWitness ==
    /\ Fed /\ ~ret.err
    /\ Cardinality(InPrefixes) = 1
    /\ \A p \in InPrefixes : HasHostBits(p)
    /\ Len(ret.prefixes) = 1

\* C7 -- Filtering: an entry of the BGP table contributes if and only if its
\* AS is the target AS and its subnet is an IPv4 prefix; entries of other AS
\* numbers are neither parsed nor logged, IPv6 prefixes are dropped without a
\* diagnostic.  A feed is filtered alike, without the AS filter.
Contributes(entry) ==
    /\ fn = "processSubnets" => entry.as = args.targetAS
    /\ ~Blank(entry)
    /\ IsV4Prefix(Strip(TextOf(entry)))
\* Every diagnostic names a text meant for the parser that is no prefix.
OnlyMalformedLogged(texts) ==
    \A k \in 1..Len(logOut) : \E i \in 1..Len(texts) : texts[i] = logOut[k].arg /\ Malformed(texts[i])
FilteredInput ==
    Fed =>
        /\ OnlyMalformedLogged(Texts)
        /\ Len(logOut) = Cardinality({i \in 1..Len(Texts) : Malformed(Texts[i])})
        /\ ~ret.err =>
              /\ ret.prefixes = Rerun(SelectSeq(InputList, Contributes)).prefixes
              /\ \A i \in 1..Len(InputList) :
                    Contributes(InputList[i]) =>
                        CoveredBy(OutPrefixes, First(ParsePrefix(Strip(TextOf(InputList[i])))))
              /\ \A p \in OutPrefixes : CoveredBy(InPrefixes, First(p))
\* processSubnets on a table with a malformed entry and an IPv4 prefix of
\* another AS, and an IPv4 prefix of the target AS: nothing was logged and only
\* the last came out.
FilterWitness ==
    /\ fn = "processSubnets" /\ Len(args.subnets) = 3
    /\ \E i, j, k \in 1..3 :
          /\ args.subnets[i].as # args.targetAS /\ Malformed(args.subnets[i].subnet)
          /\ args.subnets[j].as # args.targetAS /\ IsV4Prefix(args.subnets[j].subnet)
          /\ args.subnets[k].as = args.targetAS /\ IsV4Prefix(args.subnets[k].subnet)
    /\ logOut = <<>>
    /\ Len(ret.prefixes) = 1

\* A bare IPv4 address: a.b.c.d without "/n".
IsBareV4(text) == LastIndexByte(text, "/") = 0 /\ ParseAddr(text).ok /\ ParseAddr(text).is4
NotBare(entry) == Blank(entry) \/ ~IsBareV4(Strip(TextOf(entry)))
SomeBare == \E i \in 1..Len(Texts) : IsBareV4(Texts[i])
\* C8 -- a bare IPv4 address is taken as the /32 of that address: the address
\* is in the output and the line is not reported as invalid.  (netip.ParsePrefix
\* wants the "/": the code does not do this.)
BareAddressAccepted ==
    (Fed /\ ~ret.err) =>
        \A i \in 1..Len(Texts) :
            IsBareV4(Texts[i]) =>
                /\ NoDiagnosticFor(Texts[i])
                /\ CoveredBy(OutPrefixes, ParseAddr(Texts[i]).addr)
\* What the code does with a bare IPv4 address (C8): the line is reported as an
\* invalid subnet and skipped, the result is that of the list without it, and
\* the function goes on without error.
BareAddressRejected ==
    Fed =>
        /\ ~ret.err
        /\ \A i \in 1..Len(Texts) :
              IsBareV4(Texts[i]) => \E k \in 1..Len(logOut) : logOut[k] = InvalidSubnet(Texts[i])
        /\ ret.prefixes = Rerun(SelectSeq(InputList, NotBare)).prefixes
\* A feed with a bare address and nothing else that covers it, and an IPv4
\* prefix after it.
BareWitness ==
    /\ Fed /\ Len(Texts) = 2
    /\ IsBareV4(Texts[1]) /\ IsV4Prefix(Texts[2])
    /\ Len(ret.prefixes) = 1
    /\ ~CoveredBy(OutPrefixes, ParseAddr(Texts[1]).addr)

\* ---- the normalisation as the specification words it (4.2, 4.3) ----
\* toRange: start = address & mask, end = start + 2^(32 - length) - 1
ToRange(p) == [start |-> First(p), end |-> Last(p)]
BelowEq(a, b) == a = b \/ Below(a, b)
\* step 3: ascending by start, ties by end (the order of a set of ranges)
RangeBefore(r, o) == Below(r.start, o.start) \/ (r.start = o.start /\ BelowEq(r.end, o.end))
MinRange(R) == CHOOSE r \in R : \A o \in R : RangeBefore(r, o)
RECURSIVE Ascending(_)
Ascending(R) == IF R = {} THEN <<>> ELSE <<MinRange(R)>> \o Ascending(R \ {MinRange(R)})
\* step 4: r.start <= current.end + 1 (in arithmetic wide enough for end + 1)
Joins(current, r) == current.end = AllOnes \/ BelowEq(r.start, Succ(current.end))
MaxEnd(a, b) == IF Below(a, b) THEN b ELSE a
RECURSIVE MergePass(_, _)
MergePass(current, rest) ==
    IF rest = <<>> THEN <<current>>
    ELSE IF Joins(current, Head(rest))
    THEN MergePass([current EXCEPT !.end = MaxEnd(current.end, Head(rest).end)], Tail(rest))
    ELSE <<current>> \o MergePass(Head(rest), Tail(rest))
Merged(sorted) == IF sorted = <<>> THEN <<>> ELSE MergePass(Head(sorted), Tail(sorted))
\* 4.2: the largest block 2^k with start aligned to 2^k and start + 2^k - 1 <= end
AlignedTo(start, k) == \A i \in (AddrBits - k + 1)..AddrBits : start[i] = 0
BlockEnd(start, k) == [i \in 1..AddrBits |-> IF i > AddrBits - k THEN 1 ELSE start[i]]
Fits(start, end, k) == AlignedTo(start, k) /\ BelowEq(BlockEnd(start, k), end)
LargestBlock(start, end) ==
    CHOOSE k \in 0..AddrBits : Fits(start, end, k) /\ \A j \in (k + 1)..AddrBits : ~Fits(start, end, j)
RECURSIVE Greedy(_, _)
GreedyFrom(start, end, k) ==
    <<[addr |-> start, bits |-> AddrBits - k]>>
        \o (IF BlockEnd(start, k) = end THEN <<>> ELSE Greedy(Succ(BlockEnd(start, k)), end))
Greedy(start, end) == GreedyFrom(start, end, LargestBlock(start, end))
RECURSIVE Decomposed(_)
Decomposed(ranges) ==
    IF ranges = <<>> THEN <<>> ELSE Greedy(Head(ranges).start, Head(ranges).end) \o Decomposed(Tail(ranges))
Normalized(P) == Decomposed(Merged(Ascending({ToRange(p) : p \in P})))

\* The scenarios of the specification, as entries of the target AS "13335".
ScenarioA == <<[subnet |-> <<"1", "0", ".", "0", ".", "0", ".", "0", "/", "2", "4">>, as |-> "13335"], [subnet |-> <<"1", "0", ".", "0", ".", "1", ".", "0", "/", "2", "4">>, as |-> "13335"]>>
ScenarioB == <<[subnet |-> <<"1", "9", "2", ".", "1", "6", "8", ".", "1", ".", "0", "/", "2", "4">>, as |-> "13335"], [subnet |-> <<"1", "9", "2", ".", "1", "6", "8", ".", "1", ".", "1", "2", "8", "/", "2", "5">>, as |-> "13335"]>>
ScenarioC == <<[subnet |-> <<"1", ".", "1", ".", "1", ".", "1", "/", "3", "2">>, as |-> "13335"], [subnet |-> <<"1", ".", "1", ".", "1", ".", "2", "/", "3", "2">>, as |-> "13335"]>>
IsScenario(scenario) == fn = "processSubnets" /\ args.targetAS = "13335" /\ args.subnets = scenario

\* C9 -- Minimal decomposition: the returned list is the input ranges merged
\* into maximal disjoint ranges, each decomposed by the greedy alignment-first
\* rule, in ascending order, also for a range that ends at 2^32 - 1; and the
\* three scenarios give the lists the specification names.
MinimalDecomposition ==
    /\ (Fed /\ ~ret.err) => ret.prefixes = Normalized(InPrefixes)
    /\ IsScenario(ScenarioA) => FileLines(ret.prefixes) = <<<<"1", "0", ".", "0", ".", "0", ".", "0", "/", "2", "3">>>>
    /\ IsScenario(ScenarioB) => FileLines(ret.prefixes) = <<<<"1", "9", "2", ".", "1", "6", "8", ".", "1", ".", "0", "/", "2", "4">>>>
    /\ IsScenario(ScenarioC) => FileLines(ret.prefixes) = <<<<"1", ".", "1", ".", "1", ".", "1", "/", "3", "2">>, <<"1", ".", "1", ".", "1", ".", "2", "/", "3", "2">>>>
\* A merged range that ends at the last address and is no single prefix.
DecompositionWitness ==
    /\ Fed /\ ~ret.err
    /\ Cardinality(InPrefixes) = 2
    /\ Len(ret.prefixes) = 2
    /\ Last(ret.prefixes[2]) = AllOnes
    /\ Succ(Last(ret.prefixes[1])) = First(ret.prefixes[2])

\* ---------------------------------------------------------------- main
\* The positions of main after the start-up (configuration, directories, BGP
\* table): the groups are being handled.
GroupPhase == {"asLoop", "discord", "telegram", "cloudflare", "write", "routeros", "copy", "finish"}
Groups == config.ASNumbers \cup Feeds
\* The place of a group in the order AS numbers, Discord, Telegram, Cloudflare.
Rank(g) ==
    IF g \in ASNumbers \cup {"none"} THEN 0
    ELSE IF g = "discord" THEN 1
    ELSE IF g = "telegram" THEN 2
    ELSE IF g = "cloudflare" THEN 3
    ELSE 4
ErrorLines == SelectSeq(mainLog, IsFailure)
Logged(msg, g) == \E k \in 1..Len(mainLog) : mainLog[k] = LogLine(msg, g)
\* A group was handled: its list was written, or the error that kept it from
\* being written was logged.
Handled(g) == ListFile(g) \in outFiles \/ Logged("Error writing", g) \/ Logged("Error downloading", g)
StartupFailures == {"Usage", "Error loading config", "createDirs", "Error downloading BGP table"}
\* The run ended early: by a start-up failure, the last line logged, no output
\* file written and no group taken in hand.
EndedAtStartup ==
    /\ outFiles = {}
    /\ group = "none"
    /\ mainLog # <<>>
    /\ mainLog[Len(mainLog)].msg \in StartupFailures
    /\ \A k \in 1..Len(mainLog) - 1 : ~IsFailure(mainLog[k])
\* The run ended at "Done!", the last line logged, with every group handled.
EndedDone ==
    /\ asTodo = {}
    /\ \A g \in Groups : Handled(g)
    /\ mainLog # <<>>
    /\ mainLog[Len(mainLog)] = LogLine("Done!", "main")
\* The errors are logged in the order of the groups.
LoggedInOrder == \A j, k \in 1..Len(ErrorLines) : j < k => Rank(ErrorLines[j].arg) <= Rank(ErrorLines[k].arg)
\* A step taken once the groups are being handled leaves the run among them,
\* or at "Done!"; and the group in hand is never an earlier one.
GoesOn == pc \in GroupPhase => pc' \in (GroupPhase \cup {"done"})
InOrder == Rank(group) <= Rank(group')

\* C10 -- Failure isolation in main: once the configuration is loaded, the
\* directories are made and the BGP table is downloaded, no step ends the run
\* early, whatever fails: a failure of a group (download, write, script
\* generation, legacy copy) is a logged line, the groups are taken in the order
\* AS numbers, Discord, Telegram, Cloudflare, every group is handled, and the
\* run reaches "Done!".  The run ends early only by a start-up failure
\* (argument, configuration, directories, BGP table), and then no output file
\* has been written.
FailureIsolation ==
    /\ [][GoesOn]_vars
    /\ [][InOrder]_vars
    /\ [](LoggedInOrder)
    /\ [](pc = "fatal" => EndedAtStartup)
    /\ [](pc = "done" => EndedDone)
    /\ (pc \in GroupPhase ~> pc = "done")
\* A run that reached "Done!" although the Discord download failed and the
\* list of an AS could not be written, with the Cloudflare list written after.
IsolationWitness ==
    /\ pc = "done"
    /\ Logged("Error downloading", "discord")
    /\ \E as \in config.ASNumbers : Logged("Error writing", as) /\ ListFile(as) \notin outFiles
    /\ ListFile("telegram") \in outFiles
    /\ ListFile("cloudflare") \in outFiles

====
